---- MODULE Spec2Model ----
(***************************************************************************)
(* cargo-downgrade: the leveled traversal of the lockfile's dependency    *)
(* graph (get_dependencies), the choice of the version to downgrade to    *)
(* (find_appropriate_version), the fetch loop around it                   *)
(* (get_downgraded_dependencies) and the command line driver (main).      *)
(***************************************************************************)
EXTENDS Integers, Sequences, FiniteSets, TLC

(***************************************************************************)
(* Bounds of the model.                                                    *)
(***************************************************************************)
\* the graphs explored have at most MaxEdges edges over Nodes
MaxEdges == 5
\* the requested depths explored are 1..MaxDepth, and 255 (the last u8)
MaxDepth == 3

\* a version list holds at most MaxVersions records
MaxVersions == 3

\* main handles at most MaxCrates crate names
MaxCrates == 3

\* petgraph node indices of the dependency tree
Nodes == 1..4

(***************************************************************************)
(* The state.  get_dependencies:                                           *)
(***************************************************************************)
VARIABLES
    edges,             \* the dependency graph: <<parent, child>> pairs
    name,              \* package.name of every node
    dependency_level,  \* the Option<NonZeroU8> argument
    worklist,          \* how often each node occurs in the worklist Vec
    level,             \* the u8 level counter
    crate_names,       \* the accumulator
    iterations,        \* loop bodies executed so far (history variable)
    overflowed,        \* the "more than 255 levels" error was logged
    gd_pc,             \* "loop", "returned" or "panicked"
    gd_result          \* the returned HashSet<&str>

gd_vars == <<edges, name, dependency_level, worklist, level, crate_names,
             iterations, overflowed, gd_pc, gd_result>>

\* find_appropriate_version:
VARIABLES
    crate_name,   \* the crate asked for
    versions,     \* the Vec<Version> argument, as the registry sent it
    date,         \* the cutoff
    sorted,       \* versions after sort_unstable_by_key
    fv_pc,        \* "call" or "done"
    fv_result     \* Ok(Package) or Err(message)

fv_vars == <<crate_name, versions, date, sorted, fv_pc, fv_result>>

\* main and get_downgraded_dependencies:
VARIABLES
    cli,                      \* the command line as given: run, git, mode, crates
    args_run,                 \* args.run, as main uses it
    args_git,                 \* args.git, as main uses it
    main_crate_names,         \* main's crate_names Vec
    datetime,                 \* the cutoff, None until it is known
    fetch_idx,                \* position of the fetch loop in crate_names
    fetched,                  \* the crates get_crate was called for, in order
    fetch_failed,             \* a get_crate call failed
    downgraded_dependencies,  \* the Vec<Package> under construction
    apply_idx,                \* position of main's loop over the pairs
    invocations,              \* the cargo update invocations attempted
    relayed,                  \* invocations whose stdout and stderr were written out
    printed,                  \* the lines println! wrote
    main_pc,
    exit_code                 \* None while running

main_vars == <<cli, args_run, args_git, main_crate_names, datetime, fetch_idx,
               fetched, fetch_failed, downgraded_dependencies, apply_idx,
               invocations, relayed, printed, main_pc, exit_code>>

vars == <<gd_vars, fv_vars, main_vars>>

(***************************************************************************)
(* Option<T>: None is the empty tuple, Some(x) a tuple of one.             *)
(***************************************************************************)
None == <<>>
Some(x) == <<x>>

(***************************************************************************)
(* Vec<NodeIndex> lengths.  The worklist is a Vec into which every         *)
(* outgoing neighbour of every entry is pushed, with no deduplication and  *)
(* no visited set: only the number of times each node occurs in it         *)
(* matters to what the function computes.  These numbers outgrow 32 bits,  *)
(* so a length is kept as three limbs <<hi, mid, lo>> to the base 2^21.    *)
(***************************************************************************)
LimbBase == 2^21
BigZero == <<0, 0, 0>>
BigOne == <<0, 0, 1>>
BigAdd(a, b) ==
    LET lo  == a[3] + b[3]
        mid == a[2] + b[2] + (lo \div LimbBase)
        hi  == a[1] + b[1] + (mid \div LimbBase)
    IN  <<hi, mid % LimbBase, lo % LimbBase>>

RECURSIVE BigSum(_, _)
\* the sum of count[n] over the nodes n of S
BigSum(count, S) ==
    IF S = {} THEN BigZero
    ELSE LET n == CHOOSE x \in S : TRUE
         IN  BigAdd(count[n], BigSum(count, S \ {n}))

\* A Vec holds at most isize::MAX bytes, 2^63 - 1 on a 64-bit build, and a
\* NodeIndex is a u32: a Vec<NodeIndex> holds fewer than 2^61 entries, and
\* a push beyond what it can hold panics ("capacity overflow").  This is the
\* length no build reaches; where the allocator gives up earlier the call
\* fails earlier, and returns in no case in which it fails here.
ExceedsVecCapacity(len) == len[1] >= 2^19

U8Max == 255

\* Every package its own name, or one crate locked at two versions.
Namings == { [n \in Nodes |-> CASE n = 1 -> "a" [] n = 2 -> "b"
                                [] n = 3 -> "c" [] OTHER -> "d"],
             [n \in Nodes |-> CASE n = 1 -> "a" [] n = 2 -> "b"
                                [] n = 3 -> "c" [] OTHER -> "a"] }

PossibleEdges == { e \in Nodes \X Nodes : e[1] # e[2] }
Graphs == { g \in SUBSET PossibleEdges : Cardinality(g) <= MaxEdges }
Depths == {None} \cup { Some(d) : d \in (1..MaxDepth) \cup {U8Max} }

\* graph.externals(Incoming): the nodes without an incoming edge
Externals(g) == { n \in Nodes : ~ \E p \in Nodes : <<p, n>> \in g }

\* a variant of line 77 in which the roots contribute too
ContributesAtEveryLevel(lvl) == TRUE
\* line 77, if level > 0: the levels that contribute to the result
Contributes(lvl) == lvl > 0

\* lines 54-64, the names of the nodes of the current worklist
CurrentLevelNames(wl, nm) == { nm[n] : n \in { m \in Nodes : wl[m] # BigZero } }

\* lines 58-63: every entry pushes each of its outgoing neighbours
NextLevelWorklist(wl, g) ==
    [ n \in Nodes |-> BigSum(wl, { p \in Nodes : <<p, n>> \in g }) ]

WorklistLen(wl) == BigSum(wl, Nodes)

\* line 50: worklist.is_empty()
WorklistIsEmpty(wl) == \A n \in Nodes : wl[n] = BigZero

GdInit ==
    /\ edges \in Graphs
    /\ name \in Namings
    /\ dependency_level \in Depths
    /\ worklist = [ n \in Nodes |-> IF n \in Externals(edges) THEN BigOne ELSE BigZero ]
    /\ level = 0
    /\ crate_names = {}
    /\ iterations = 0
    /\ overflowed = FALSE
    /\ gd_pc = "loop"
    /\ gd_result = {}

\* One pass of the while loop's body (lines 51-95).
Iterate ==
    /\ gd_pc = "loop"
    /\ ~WorklistIsEmpty(worklist)
    /\ LET current == CurrentLevelNames(worklist, name)
           next    == NextLevelWorklist(worklist, edges)
       IN  IF ExceedsVecCapacity(WorklistLen(next))
           THEN /\ gd_pc' = "panicked"
                /\ UNCHANGED <<worklist, level, crate_names, overflowed, gd_result>>
           ELSE /\ worklist' = next
                /\ IF Contributes(level) /\ dependency_level # None
                      /\ level >= dependency_level[1]
                   THEN /\ gd_result' = current
                        /\ gd_pc' = "returned"
                        /\ UNCHANGED <<level, crate_names, overflowed>>
                   ELSE /\ crate_names' =
                             IF Contributes(level) /\ dependency_level = None
                             THEN crate_names \cup current ELSE crate_names
                        /\ IF level = U8Max
                           THEN /\ overflowed' = TRUE
                                /\ gd_result' = crate_names'
                                /\ gd_pc' = "returned"
                                /\ UNCHANGED level
                           ELSE /\ level' = level + 1
                                /\ UNCHANGED <<overflowed, gd_pc, gd_result>>
    /\ iterations' = iterations + 1
    /\ UNCHANGED <<edges, name, dependency_level>>
    /\ UNCHANGED <<fv_vars, main_vars>>

\* The worklist is empty: the loop ends and crate_names is returned (line 98).
ReturnCrateNames ==
    /\ gd_pc = "loop"
    /\ WorklistIsEmpty(worklist)
    /\ gd_result' = crate_names
    /\ gd_pc' = "returned"
    /\ UNCHANGED <<edges, name, dependency_level, worklist, level, crate_names,
                   iterations, overflowed>>
    /\ UNCHANGED <<fv_vars, main_vars>>

GdNext == Iterate \/ ReturnCrateNames

(***************************************************************************)
(* Reference notions the properties of get_dependencies are stated with.  *)
(***************************************************************************)
Successors(g, S) == { n \in Nodes : \E p \in S : <<p, n>> \in g }
NamesOf(nm, S) == { nm[n] : n \in S }

RECURSIVE ReachableFrom(_, _)
\* S and everything reachable from S
ReachableFrom(g, S) ==
    LET T == S \cup Successors(g, S)
    IN  IF T = S THEN S ELSE ReachableFrom(g, T)

\* The nodes of the levels 1..255 of the traversal: a node that a walk of at
\* least one edge reaches from a root is reached by one of at most
\* Cardinality(Nodes) edges, far fewer than 255.
BelowRoots(g) == ReachableFrom(g, Successors(g, Externals(g)))

RECURSIVE ShortestFrom(_, _, _, _)
\* breadth-first search: the nodes d edges beyond `frontier`, none of them
\* in `visited` or at a smaller distance
ShortestFrom(g, frontier, visited, d) ==
    IF d = 0 \/ frontier = {} THEN frontier
    ELSE ShortestFrom(g, Successors(g, frontier) \ (visited \cup frontier),
                      visited \cup frontier, d - 1)

\* the nodes whose shortest distance from a root is d
ShortestLevel(g, d) == ShortestFrom(g, Externals(g), {}, d)

GdTerminated == gd_pc \in {"returned", "panicked"}

(* C1: for every graph and every depth D, get_dependencies(Some(D), graph)
   returns exactly the names of the nodes whose shortest distance from a
   root is D. *)
C1_ShortestDistanceLevel ==
    (GdTerminated /\ dependency_level # None) =>
        /\ gd_pc = "returned"
        /\ gd_result = NamesOf(name, ShortestLevel(edges, dependency_level[1]))

(* C2, as claimed: the returned set never holds the package name of a root. *)
C2_NoRootName ==
    gd_pc = "returned" =>
        \A r \in Externals(edges) : name[r] \notin gd_result

(* C2, amended: every returned name is the name of a node that a walk of at
   least one edge reaches from a root (a node with an incoming edge, so not
   a root); a root's name is returned only when such a node carries it. *)
C2_OnlyNodesBelowRoots ==
    gd_pc = "returned" =>
        \A x \in gd_result :
            \E m \in BelowRoots(edges) : m \notin Externals(edges) /\ name[m] = x

\* a deeper node carries a root's name and that name is returned
C2_Witness ==
    /\ gd_pc = "returned"
    /\ \E r \in Externals(edges) : name[r] \in gd_result

(* C3: get_dependencies(None, graph) returns the union of the name sets of
   every level >= 1 of the traversal, and the result for any depth D is a
   subset of it. *)
C3_UnionOfLevels ==
    /\ (GdTerminated /\ dependency_level = None) =>
           /\ gd_pc = "returned"
           /\ gd_result = NamesOf(name, BelowRoots(edges))
    /\ (gd_pc = "returned" /\ dependency_level # None) =>
           gd_result \subseteq NamesOf(name, BelowRoots(edges))

(* C7: get_dependencies terminates on every finite graph: the level counter
   stays within 0..255, the loop body runs at most 256 times, the function
   never fails, and when the level bound trips with no depth requested it
   returns the names of the levels 1..255. *)
C7_TerminatesGracefully ==
    /\ gd_pc # "panicked"
    /\ level \in 0..U8Max
    /\ iterations <= U8Max + 1
    /\ (gd_pc = "returned" /\ overflowed /\ dependency_level = None) =>
           gd_result = NamesOf(name, BelowRoots(edges))

(***************************************************************************)
(* find_appropriate_version (lib.rs, lines 101-129).                       *)
(***************************************************************************)

SecondsPerDay == 86400
CrateNames == {"serde", "rand"}
\* The instants explored, in seconds since the epoch: the first two seconds
\* of a day and the first second of the next.
Timestamps == {0, 1, SecondsPerDay}
\* the i-th record of a list as the registry sent it: the version numbers
\* are 1.0.0, 1.0.1, ..., each listed once
VersionNum(i) == <<1, 0, i - 1>>
VersionListsOfLen(n) ==
    { [ i \in 1..n |-> [num |-> VersionNum(i), updated_at |-> ts[i], yanked |-> ys[i]] ] :
        ts \in [1..n -> Timestamps], ys \in [1..n -> BOOLEAN] }
VersionLists == UNION { VersionListsOfLen(n) : n \in 0..MaxVersions }

Ok(package) == [tag |-> "Ok", package |-> package]
Err(message) == [tag |-> "Err", message |-> message]

RECURSIVE IndexOrders(_)
\* every order the indices of S can be put in
IndexOrders(S) ==
    IF S = {} THEN {<<>>}
    ELSE UNION { { <<i>> \o rest : rest \in IndexOrders(S \ {i}) } : i \in S }

\* the orders of 1..n, for the lengths a list can have
IndexOrdersOfLen == [ n \in 0..MaxVersions |-> IndexOrders(1..n) ]

\* every order the elements of vs can be put in
Orderings(vs) ==
    { [ i \in DOMAIN vs |-> vs[f[i]] ] : f \in IndexOrdersOfLen[Len(vs)] }

\* a variant of line 107 that leaves the list as it came
SortUnstableUnsorted(vs) == {vs}
\* line 107, sort_unstable_by_key(|version| version.updated_at): ascending by
\* the key, the records of equal key in an order the sort does not promise
SortUnstableByUpdatedAt(vs) ==
    { [ i \in DOMAIN vs |-> vs[f[i]] ] :
        f \in { g \in IndexOrdersOfLen[Len(vs)] :
                  \A i \in 1..(Len(vs) - 1) :
                      vs[g[i]].updated_at <= vs[g[i + 1]].updated_at } }

\* a variant of line 113 that admits the cutoff itself
PublishedBeforeOrAt(version, cutoff) == version.updated_at <= cutoff /\ ~version.yanked
\* line 113: the predicate of the backward search
PublishedBefore(version, cutoff) == version.updated_at < cutoff /\ ~version.yanked

\* a variant of line 124 that takes the first record, yanked or not
AnyVersion(version) == TRUE
\* line 124: the predicate of the search for the hint
Unyanked(version) == ~version.yanked

\* line 125, format("%Y-%m-%d"): the calendar day of the instant
FormatDate(t) == t \div SecondsPerDay

\* lines 110-128 on the sorted list
PickFromSorted(crate, srt, cutoff) ==
    LET qualifying == { i \in DOMAIN srt : PublishedBefore(srt[i], cutoff) }
        unyanked   == { i \in DOMAIN srt : Unyanked(srt[i]) }
    IN  IF qualifying # {}
        THEN \* iter().rev().find: the last match
             LET i == CHOOSE k \in qualifying : \A m \in qualifying : m <= k
             IN  Ok([name |-> crate, version |-> srt[i].num])
        ELSE Err([crate |-> crate,
                  oldest |-> IF unyanked # {}
                             THEN \* iter().find: the first match
                                  LET i == CHOOSE k \in unyanked :
                                               \A m \in unyanked : k <= m
                                  IN  Some(<<srt[i].num, FormatDate(srt[i].updated_at)>>)
                             ELSE None])

\* the results find_appropriate_version can give for an input
FindAppropriateVersionResults(crate, vs, cutoff) ==
    { PickFromSorted(crate, srt, cutoff) : srt \in SortUnstableByUpdatedAt(vs) }

FvInit ==
    /\ crate_name \in CrateNames
    /\ versions \in VersionLists
    /\ date \in Timestamps
    /\ sorted = <<>>
    /\ fv_pc = "call"
    /\ fv_result = None

find_appropriate_version ==
    /\ fv_pc = "call"
    /\ sorted' \in SortUnstableByUpdatedAt(versions)
    /\ fv_result' = PickFromSorted(crate_name, sorted', date)
    /\ fv_pc' = "done"
    /\ UNCHANGED <<crate_name, versions, date>>
    /\ UNCHANGED <<gd_vars, main_vars>>

FvNext == find_appropriate_version

Records(vs) == { vs[i] : i \in DOMAIN vs }
Qualifying(vs, cutoff) == { r \in Records(vs) : r.updated_at < cutoff /\ ~r.yanked }
UnyankedRecords(vs) == { r \in Records(vs) : ~r.yanked }

(* C4: on success the chosen record was published strictly before the
   cutoff, is not yanked, and no other unyanked record published strictly
   before the cutoff is later; the pair carries the crate name asked for and
   the record's version number. *)
C4_LatestBeforeCutoff ==
    (fv_pc = "done" /\ fv_result.tag = "Ok") =>
        /\ fv_result.package.name = crate_name
        /\ \E r \in Records(versions) :
              /\ r.num = fv_result.package.version
              /\ r.updated_at < date
              /\ ~r.yanked
              /\ \A o \in Records(versions) :
                    (~o.yanked /\ o.updated_at < date) => o.updated_at <= r.updated_at

\* a success although one record was published at the cutoff itself and a
\* later record before the cutoff is yanked
C4_Witness ==
    /\ fv_pc = "done" /\ fv_result.tag = "Ok"
    /\ \E a, b \in Records(versions) :
          /\ ~a.yanked /\ a.updated_at = date
          /\ b.yanked /\ b.updated_at < date
          /\ \E r \in Records(versions) :
                r.num = fv_result.package.version /\ r.updated_at < b.updated_at

(* C5, as claimed: every permutation of the version list gives the identical
   outcome. *)
C5_PermutationInvariant ==
    fv_pc = "done" =>
        \A p \in Orderings(versions) :
            FindAppropriateVersionResults(crate_name, p, date) = {fv_result}

NoSharedUnyankedTimestamp(vs) ==
    \A i, j \in DOMAIN vs :
        (~vs[i].yanked /\ ~vs[j].yanked /\ vs[i].updated_at = vs[j].updated_at) => i = j

(* C5, amended: when no two unyanked records of the list share a publish
   timestamp, every permutation of the list gives the identical outcome. *)
C5_PermutationInvariantDistinct ==
    (fv_pc = "done" /\ NoSharedUnyankedTimestamp(versions)) =>
        \A p \in Orderings(versions) :
            FindAppropriateVersionResults(crate_name, p, date) = {fv_result}

\* a list that arrived out of order, a yanked record sharing the timestamp
\* of the chosen one
C5_Witness ==
    /\ fv_pc = "done" /\ fv_result.tag = "Ok"
    /\ NoSharedUnyankedTimestamp(versions)
    /\ \E i, j \in DOMAIN versions :
          i < j /\ versions[i].updated_at > versions[j].updated_at
    /\ \E i, j \in DOMAIN versions :
          /\ versions[i].num = fv_result.package.version
          /\ versions[j].yanked
          /\ versions[i].updated_at = versions[j].updated_at

(* C8: the call fails exactly when no unyanked record was published strictly
   before the cutoff; the failure names the crate and reports the unyanked
   record of the whole list with the earliest timestamp, or that no versions
   are known when no record is unyanked. *)
C8_FailureAndHint ==
    fv_pc = "done" =>
        /\ fv_result.tag = "Err" <=> Qualifying(versions, date) = {}
        /\ fv_result.tag = "Err" =>
              /\ fv_result.message.crate = crate_name
              /\ fv_result.message.oldest = None <=> UnyankedRecords(versions) = {}
              /\ fv_result.message.oldest # None =>
                    \E r \in UnyankedRecords(versions) :
                        /\ \A o \in UnyankedRecords(versions) :
                              r.updated_at <= o.updated_at
                        /\ fv_result.message.oldest =
                              Some(<<r.num, FormatDate(r.updated_at)>>)

\* a failure whose hint is a record after the cutoff, an older record of the
\* list being yanked
C8_Witness ==
    /\ fv_pc = "done" /\ fv_result.tag = "Err"
    /\ fv_result.message.oldest # None
    /\ \E r, y \in Records(versions) :
          /\ y.yanked /\ ~r.yanked /\ y.updated_at < r.updated_at
          /\ r.updated_at > date
          /\ fv_result.message.oldest = Some(<<r.num, FormatDate(r.updated_at)>>)

(***************************************************************************)
(* main (main.rs, lines 64-133) around get_downgraded_dependencies         *)
(* (lib.rs, lines 132-162).                                                *)
(***************************************************************************)

MainCrates == <<"log", "rand", "serde">>
MainCrateSet == { MainCrates[i] : i \in DOMAIN MainCrates }
\* the position of a name in the order of str
StrRank(nm) == CHOOSE i \in DOMAIN MainCrates : MainCrates[i] = nm

\* the exit status of a panic, and of std::process::exit(1)
PanicExitCode == 101
ErrorExitCode == 1

\* line 92 of main.rs: crate_names.sort()
SortNames(names) ==
    CHOOSE p \in Orderings(names) :
        \A i, j \in DOMAIN p : i < j => StrRank(p[i]) <= StrRank(p[j])

RECURSIVE Dedup(_)
\* line 93 of main.rs: Vec::dedup removes consecutive repeated elements
Dedup(names) ==
    IF Len(names) <= 1 THEN names
    ELSE LET rest == Dedup(Tail(names))
         IN  IF Head(names) = Head(rest) THEN rest ELSE <<Head(names)>> \o rest

\* lines 17-21 of lib.rs: impl Display for Package
Display(package) == <<package.name, " = \"=", package.version, "\"">>

\* the orders a HashSet of names can be iterated in (main.rs, lines 85-87)
SetOrders(S) ==
    { q \in [1..Cardinality(S) -> S] : \A i, j \in DOMAIN q : q[i] = q[j] => i = j }

\* what get_crate can answer: a failure, or the crate's version list
RegistryAnswers ==
    {None} \cup { Some(vs) : vs \in VersionListsOfLen(0) \cup VersionListsOfLen(1) }

InvocationOutcomes == {"spawn_failed", "exit_failure", "exit_success"}

CliModes == {"All", "This"}
CliCrateLists == UNION { [1..n -> MainCrateSet] : n \in 1..MaxCrates }

MainInit ==
    /\ cli \in { c \in [run : BOOLEAN, git : BOOLEAN, mode : CliModes,
                        crates : CliCrateLists \cup {<<>>}] :
                   c.mode = "This" <=> c.crates # <<>> }
    /\ args_run = cli.run
    /\ args_git = cli.git
    /\ main_crate_names = <<>>
    /\ datetime = None
    /\ fetch_idx = 1
    /\ fetched = <<>>
    /\ fetch_failed = FALSE
    /\ downgraded_dependencies = <<>>
    /\ apply_idx = 1
    /\ invocations = <<>>
    /\ relayed = 0
    /\ printed = <<>>
    /\ main_pc = "parsed"
    /\ exit_code = None

Panic ==
    /\ main_pc' = "panicked"
    /\ exit_code' = Some(PanicExitCode)

\* lines 69-70 of main.rs
OverrideArguments ==
    /\ main_pc = "parsed"
    /\ args_run' = TRUE
    /\ args_git' = TRUE
    /\ main_pc' = "load"
    /\ UNCHANGED <<cli, main_crate_names, datetime, fetch_idx, fetched, fetch_failed,
                   downgraded_dependencies, apply_idx, invocations, relayed,
                   printed, exit_code>>
    /\ UNCHANGED <<gd_vars, fv_vars>>

\* lines 72-81 of main.rs: Lockfile::load(..).unwrap(), dependency_tree().unwrap()
LoadLockfile ==
    /\ main_pc = "load"
    /\ \E loaded \in BOOLEAN :
          IF loaded
          THEN main_pc' = "names" /\ UNCHANGED exit_code
          ELSE Panic
    /\ UNCHANGED <<cli, args_run, args_git, main_crate_names, datetime, fetch_idx,
                   fetched, fetch_failed, downgraded_dependencies, apply_idx,
                   invocations, relayed, printed>>
    /\ UNCHANGED <<gd_vars, fv_vars>>

\* lines 83-96 of main.rs
CollectCrateNames ==
    /\ main_pc = "names"
    /\ IF cli.mode = "All"
       THEN \E S \in SUBSET MainCrateSet : main_crate_names' \in SetOrders(S)
       ELSE main_crate_names' = Dedup(SortNames(cli.crates))
    /\ main_pc' = "date"
    /\ UNCHANGED <<cli, args_run, args_git, datetime, fetch_idx, fetched,
                   fetch_failed, downgraded_dependencies, apply_idx, invocations,
                   relayed, printed, exit_code>>
    /\ UNCHANGED <<gd_vars, fv_vars>>

\* lines 98-104 of main.rs: get_timestamp_from_git().unwrap(), or
\* parse_from_rfc2822(&args.date).unwrap()
DetermineDate ==
    /\ main_pc = "date"
    /\ \E t \in {None} \cup { Some(x) : x \in Timestamps } :
          IF t = None
          THEN Panic /\ UNCHANGED datetime
          ELSE datetime' = t /\ main_pc' = "fetch" /\ UNCHANGED exit_code
    /\ UNCHANGED <<cli, args_run, args_git, main_crate_names, fetch_idx, fetched,
                   fetch_failed, downgraded_dependencies, apply_idx, invocations,
                   relayed, printed>>
    /\ UNCHANGED <<gd_vars, fv_vars>>

\* A variant of the loop body below in which a failed fetch is logged and
\* the loop goes on.
FetchCrateSkippingFailure ==
    /\ main_pc = "fetch"
    /\ fetch_idx <= Len(main_crate_names)
    /\ LET crate == main_crate_names[fetch_idx]
       IN  /\ fetched' = Append(fetched, crate)
           /\ \E answer \in RegistryAnswers :
                 IF answer = None
                 THEN /\ fetch_failed' = TRUE
                      /\ UNCHANGED downgraded_dependencies
                 ELSE /\ \E r \in FindAppropriateVersionResults(crate, answer[1], datetime[1]) :
                            downgraded_dependencies' =
                                IF r.tag = "Ok"
                                THEN Append(downgraded_dependencies, r.package)
                                ELSE downgraded_dependencies
                      /\ UNCHANGED fetch_failed
           /\ fetch_idx' = fetch_idx + 1
           /\ UNCHANGED <<main_pc, exit_code>>
    /\ UNCHANGED <<cli, args_run, args_git, main_crate_names, datetime, apply_idx,
                   invocations, relayed, printed>>
    /\ UNCHANGED <<gd_vars, fv_vars>>

\* One pass of the loop of get_downgraded_dependencies (lib.rs, lines
\* 150-159).  get_crate(..).await? returns the error to main, which prints
\* it and exits with status 1 (main.rs, lines 128-131).
FetchCrate ==
    /\ main_pc = "fetch"
    /\ fetch_idx <= Len(main_crate_names)
    /\ LET crate == main_crate_names[fetch_idx]
       IN  /\ fetched' = Append(fetched, crate)
           /\ \E answer \in RegistryAnswers :
                 IF answer = None
                 THEN /\ fetch_failed' = TRUE
                      /\ main_pc' = "exited"
                      /\ exit_code' = Some(ErrorExitCode)
                      /\ UNCHANGED <<downgraded_dependencies, fetch_idx>>
                 ELSE /\ \E r \in FindAppropriateVersionResults(crate, answer[1], datetime[1]) :
                            downgraded_dependencies' =
                                IF r.tag = "Ok"
                                THEN Append(downgraded_dependencies, r.package)
                                ELSE downgraded_dependencies
                      /\ fetch_idx' = fetch_idx + 1
                      /\ UNCHANGED <<fetch_failed, main_pc, exit_code>>
    /\ UNCHANGED <<cli, args_run, args_git, main_crate_names, datetime, apply_idx,
                   invocations, relayed, printed>>
    /\ UNCHANGED <<gd_vars, fv_vars>>

\* lib.rs line 161, main.rs line 109: Ok(downgraded_dependencies)
FetchesDone ==
    /\ main_pc = "fetch"
    /\ fetch_idx > Len(main_crate_names)
    /\ main_pc' = "apply"
    /\ UNCHANGED <<cli, args_run, args_git, main_crate_names, datetime, fetch_idx,
                   fetched, fetch_failed, downgraded_dependencies, apply_idx,
                   invocations, relayed, printed, exit_code>>
    /\ UNCHANGED <<gd_vars, fv_vars>>

\* line 111 of main.rs
RunRequested == args_run

\* a variant of line 119 that also stops on an unsuccessful exit status
AbortsOnAnyFailure(outcome) == outcome # "exit_success"
\* line 119 of main.rs, .output().unwrap(): the outcomes that end the run
AbortsInvocation(outcome) == outcome = "spawn_failed"

\* One pass of main's loop over the pairs (main.rs, lines 110-126).
ApplyDependency ==
    /\ main_pc = "apply"
    /\ apply_idx <= Len(downgraded_dependencies)
    /\ LET dep == downgraded_dependencies[apply_idx]
       IN  IF RunRequested
           THEN \E outcome \in InvocationOutcomes :
                  /\ invocations' = Append(invocations,
                        [name |-> dep.name, version |-> dep.version, outcome |-> outcome])
                  /\ IF AbortsInvocation(outcome)
                     THEN Panic /\ UNCHANGED <<relayed, apply_idx>>
                     ELSE /\ relayed' = relayed + 1
                          /\ apply_idx' = apply_idx + 1
                          /\ UNCHANGED <<main_pc, exit_code>>
                  /\ UNCHANGED printed
           ELSE /\ printed' = Append(printed, Display(dep))
                /\ apply_idx' = apply_idx + 1
                /\ UNCHANGED <<invocations, relayed, main_pc, exit_code>>
    /\ UNCHANGED <<cli, args_run, args_git, main_crate_names, datetime, fetch_idx,
                   fetched, fetch_failed, downgraded_dependencies>>
    /\ UNCHANGED <<gd_vars, fv_vars>>

\* main returns
MainReturns ==
    /\ main_pc = "apply"
    /\ apply_idx > Len(downgraded_dependencies)
    /\ main_pc' = "done"
    /\ exit_code' = Some(0)
    /\ UNCHANGED <<cli, args_run, args_git, main_crate_names, datetime, fetch_idx,
                   fetched, fetch_failed, downgraded_dependencies, apply_idx,
                   invocations, relayed, printed>>
    /\ UNCHANGED <<gd_vars, fv_vars>>

MainNext ==
    \/ OverrideArguments
    \/ LoadLockfile
    \/ CollectCrateNames
    \/ DetermineDate
    \/ FetchCrate
    \/ FetchesDone
    \/ ApplyDependency
    \/ MainReturns
(***************************************************************************)
(* The specifications: each function on its own, the other two at rest.    *)
(***************************************************************************)

GdIdle ==
    /\ edges = {} /\ name = <<>> /\ dependency_level = None
    /\ worklist = <<>> /\ level = 0 /\ crate_names = {} /\ iterations = 0
    /\ overflowed = FALSE /\ gd_pc = "idle" /\ gd_result = {}

FvIdle ==
    /\ crate_name = "" /\ versions = <<>> /\ date = 0 /\ sorted = <<>>
    /\ fv_pc = "idle" /\ fv_result = None

MainIdle ==
    /\ cli = None /\ args_run = FALSE /\ args_git = FALSE
    /\ main_crate_names = <<>> /\ datetime = None /\ fetch_idx = 1
    /\ fetched = <<>> /\ fetch_failed = FALSE /\ downgraded_dependencies = <<>>
    /\ apply_idx = 1 /\ invocations = <<>> /\ relayed = 0 /\ printed = <<>>
    /\ main_pc = "idle" /\ exit_code = None

LevelsInit == GdInit /\ FvIdle /\ MainIdle
SpecLevels == LevelsInit /\ [][GdNext]_vars

PickInit == GdIdle /\ FvInit /\ MainIdle
SpecPick == PickInit /\ [][FvNext]_vars

ProgramInit == GdIdle /\ FvIdle /\ MainInit
SpecMain == ProgramInit /\ [][MainNext]_vars

MainTerminated == main_pc \in {"done", "exited", "panicked"}

(* C6, as claimed: a crate whose fetch fails is skipped; every other crate
   name is still fetched and the run does not end with a fatal error. *)
C6_FailedFetchIsSkipped ==
    (MainTerminated /\ fetch_failed) =>
        /\ fetched = main_crate_names
        /\ main_pc # "exited"

(* C6, amended: a failed fetch ends get_downgraded_dependencies with the
   error at once: the failing crate is the last one fetched, the pairs
   resolved before it are never applied, and main exits with status 1. *)
C6_FailedFetchIsFatal ==
    fetch_failed =>
        /\ main_pc = "exited"
        /\ exit_code = Some(ErrorExitCode)
        /\ fetched = SubSeq(main_crate_names, 1, Len(fetched))
        /\ fetch_idx = Len(fetched)
        /\ invocations = <<>>
        /\ printed = <<>>

\* the fetch of the second of three crates failed, the first being resolved
C6_Witness ==
    /\ fetch_failed
    /\ Len(main_crate_names) = 3
    /\ Len(fetched) = 2
    /\ Len(downgraded_dependencies) = 1

(* C9, as claimed: an invocation that fails, by not starting or by exiting
   unsuccessfully, does not abort the run: every later pair is invoked. *)
C9_FailedInvocationDoesNotAbort ==
    (MainTerminated /\ ~fetch_failed /\ invocations # <<>>) =>
        Len(invocations) = Len(downgraded_dependencies)

SpawnFailures == { i \in DOMAIN invocations : invocations[i].outcome = "spawn_failed" }

(* C9, amended: an invocation that exits unsuccessfully has its output
   written out and the run goes on, so that a run in which every invocation
   started ends with every pair invoked, in order; an invocation that cannot
   be started panics main, and no later pair is invoked. *)
C9_OnlySpawnFailureAborts ==
    /\ \A i \in DOMAIN invocations :
          /\ invocations[i].name = downgraded_dependencies[i].name
          /\ invocations[i].version = downgraded_dependencies[i].version
    /\ relayed = Len(invocations) - Cardinality(SpawnFailures)
    /\ (MainTerminated /\ invocations # <<>> /\ SpawnFailures = {}) =>
          /\ main_pc = "done"
          /\ Len(invocations) = Len(downgraded_dependencies)
    /\ SpawnFailures # {} =>
          /\ main_pc = "panicked"
          /\ SpawnFailures = {Len(invocations)}

\* an invocation exited unsuccessfully and the next pair was invoked
C9_Witness ==
    /\ main_pc = "done"
    /\ Len(invocations) = 3
    /\ invocations[1].outcome = "exit_failure"
    /\ invocations[2].outcome = "exit_success"

(* C10: cargo update is invoked only when the run flag was given; without it
   no invocation occurs and every resolved pair is printed as
   name = "=version". *)
C10_InvokedOnlyWithRunFlag ==
    /\ invocations # <<>> => cli.run
    /\ (main_pc = "done" /\ ~cli.run) =>
          printed = [ i \in DOMAIN downgraded_dependencies |->
                        Display(downgraded_dependencies[i]) ]
====
